---- MODULE Spec2Model ----
(***************************************************************************)
(* Model of src/downloading_script.py: the ingestion loop of               *)
(* trending_videos() with the enrichment of each item (hashtags, usage     *)
(* count of the sound, popularity heuristic), its item-level and           *)
(* page-level error handlers, the two append-only outputs (CSV and JSONL)  *)
(* and the session re-creation.                                            *)
(*                                                                         *)
(* There is a single control flow; pc is its position, and a step ends at  *)
(* an await on the Content Source, at an await of a backoff sleep or at    *)
(* an operation on an output file.  The Content Source (TikTokApi) is the  *)
(* environment: each of its calls succeeds or raises, and a page is a      *)
(* lazy sequence whose next element is chosen when the `async for` asks    *)
(* for it.  A row that cannot be encoded makes writerow or json.dumps      *)
(* raise; flush and close of the local files do not raise.  What an        *)
(* interruption leaves behind is what has reached the file (csv_disk,      *)
(* jsonl_disk), never what is still buffered.                              *)
(*                                                                         *)
(* Spec is the loop over items without sound.  SpecEnrich is the loop     *)
(* for one page of items with sound, in the runs in which every call but   *)
(* the sound lookups succeeds; SpecTags is the start of a run up to the    *)
(* enrichment of its first item, over captions and annotation lists.  A    *)
(* string the code builds is the sequence of its pieces; a caption is the  *)
(* sequence of its characters.  Characters outside Latin-1 are outside     *)
(* the model.                                                              *)
(*                                                                         *)
(* Durations are in seconds, except the jitter and SleepFor, in tenths.    *)
(***************************************************************************)
EXTENDS Integers, Sequences, FiniteSets

\* ---------------------------------------------------------------- bounds
MaxCOUNT     == 2   \* COUNT is drawn from 1..MaxCOUNT
MaxPAGE_SIZE == 2   \* PAGE_SIZE is drawn from 1..MaxPAGE_SIZE
MaxMAX_LOOPS == 2   \* MAX_LOOPS is drawn from 1..MaxMAX_LOOPS
MaxVideoId   == 2   \* the Content Source knows the videos 1..MaxVideoId
MaxExtra     == 1   \* a page yields at most page_target + MaxExtra items
MaxSoundId   == 2   \* the items carry the sound ids 1..MaxSoundId
MaxAnnotations == 3 \* an item has at most MaxAnnotations textExtra entries
MaxDescLen   == 6   \* a caption has at most MaxDescLen characters

\* ------------------------------------------------------ program constants
RESET_SESSION_AFTER_ERRORS == 3
BACKOFF_BASE_SEC           == 2
BACKOFF_MAX_SEC            == 30
ExpoCap                    == 6
POPULAR_SOUND_MIN_USES     == 1000
JitterTenths               == 8

VARIABLES
    COUNT, PAGE_SIZE, MAX_LOOPS,    \* configuration, fixed during a run
    pc,                             \* position of the control flow
    downloaded_count, seen_ids, consecutive_errors, loops,
    page_target, got_any,           \* locals of the page iteration
    yielded,                        \* items the current page has yielded
    video_id, out_path,             \* locals of the item pipeline
    stored,                         \* files created under DOWNLOAD_DIR
    csv_buf, csv_disk,              \* CSV rows: buffered / in the file
    jsonl_buf, jsonl_disk,          \* JSONL lines: buffered / in the file
    files_open,                     \* the two outputs are still open
    sessions,                       \* sessions opened by create_sessions;
                                    \* the code closes none before the end
    last_expo,                      \* expo of the last page failure since
                                    \* the last successful capture, or 0
    prev_expo,                      \* expo of the page failure before it
                                    \* in the same run of failures, or 0
    last_item,                      \* outcome of the last item so far
    last_page,                      \* outcome of the last page request
    data,                           \* t.as_dict of the last item fetched
    hashtags,                       \* its hashtags
    music_obj, music_id,            \* its sound and the key of the sound
    music_uses_count,               \* the usage count of the sound, or None
    uses_popular_sound, reason,     \* result of the popularity heuristic
    music_usage_cache,              \* sound key -> usage count or None
    lookups,                        \* per sound id: music entity and sound
                                    \* entity lookups issued so far
    first_uses                      \* per sound id: the usage count the
                                    \* first item with this sound got

config  == <<COUNT, PAGE_SIZE, MAX_LOOPS>>
outputs == <<csv_buf, csv_disk, jsonl_buf, jsonl_disk, files_open>>
backoff == <<last_expo, prev_expo>>
usage   == <<music_uses_count, uses_popular_sound, reason, first_uses>>
enrich  == <<data, hashtags, music_obj, music_id, usage, music_usage_cache,
             lookups>>

vars == <<config, pc, downloaded_count, seen_ids, consecutive_errors, loops,
          page_target, got_any, yielded, video_id, out_path, stored,
          outputs, sessions, backoff, last_item, last_page, enrich>>

\* ---------------------------------------------------------------- helpers
VideoIds == 1..MaxVideoId
NoId     == 0          \* data.get("id") is missing or falsy
None     == <<>>

Min(a, b) == IF a <= b THEN a ELSE b

RECURSIVE Pow2(_)
Pow2(n) == IF n = 0 THEN 1 ELSE 2 * Pow2(n - 1)

\* os.path.join(DOWNLOAD_DIR, f"{video_id}.mp4")
PathOf(v) == <<"downloads", v>>

\* the row dict, reduced to the two fields the outputs are keyed on
Row(v, p) == [video_id |-> v, download_path |-> p]

\* mutant: the page size is requested whatever is still missing
PageTargetFull(cnt) == PAGE_SIZE

\* page_target = min(PAGE_SIZE, COUNT - downloaded_count)
PageTarget(cnt) == Min(PAGE_SIZE, COUNT - cnt)

\* expo = min(BACKOFF_MAX_SEC, BACKOFF_BASE_SEC * (2 ** min(errs, 6)))
Expo(errs) == Min(BACKOFF_MAX_SEC, BACKOFF_BASE_SEC * Pow2(Min(errs, ExpoCap)))

\* random.uniform(0, JITTER_SEC), in steps of a tenth of a second
Jitters == 0..JitterTenths

\* sleep_for = expo + random.uniform(0, JITTER_SEC), in tenths of a second
SleepFor(errs, jitter) == 10 * Expo(errs) + jitter

\* mutant: the session is re-created one error too early
NeedsResetEarly(errs) == errs >= RESET_SESSION_AFTER_ERRORS - 1

\* the `if consecutive_errors >= RESET_SESSION_AFTER_ERRORS` of both handlers
NeedsReset(errs) == errs >= RESET_SESSION_AFTER_ERRORS

\* mutant: the dedup test is missing
AlreadySeenNever(v) == FALSE

\* the `video_id in seen_ids` test of the dedup step
AlreadySeen(v) == v \in seen_ids

\* mutant: the guard inside the page is missing
TargetReachedIgnored == FALSE

\* the `if downloaded_count >= COUNT: break` guard inside the page
TargetReached == downloaded_count >= COUNT

\* mutant: an empty page is taken for a finished page
EmptyPageAccepted == FALSE

\* the `if not got_any` test after the page
EmptyPage == ~got_any

\* the while condition
LoopCondition == downloaded_count < COUNT /\ loops < MAX_LOOPS

Ids(s) == {s[i].video_id : i \in 1..Len(s)}

\* ---------------------------------------------------------------- strings
\* str.isspace(): the characters str.split() splits on, within Latin-1:
\* space, \t, \n, \r, \f, and, written as they are, U+000B, U+001C to
\* U+001F, U+0085 and U+00A0
Whitespace ==
    {" ", "\t", "\n", "\r", "\f",
     "", "", "", "", "", "", " "}

UpperChars ==
    <<"A", "B", "C", "D", "E", "F", "G", "H", "I", "J", "K", "L", "M",
      "N", "O", "P", "Q", "R", "S", "T", "U", "V", "W", "X", "Y", "Z",
      "À", "Á", "Â", "Ã", "Ä", "Å", "Æ", "Ç", "È", "É", "Ê", "Ë", "Ì",
      "Í", "Î", "Ï", "Ð", "Ñ", "Ò", "Ó", "Ô", "Õ", "Ö", "Ø", "Ù", "Ú",
      "Û", "Ü", "Ý", "Þ">>
LowerChars ==
    <<"a", "b", "c", "d", "e", "f", "g", "h", "i", "j", "k", "l", "m",
      "n", "o", "p", "q", "r", "s", "t", "u", "v", "w", "x", "y", "z",
      "à", "á", "â", "ã", "ä", "å", "æ", "ç", "è", "é", "ê", "ë", "ì",
      "í", "î", "ï", "ð", "ñ", "ò", "ó", "ô", "õ", "ö", "ø", "ù", "ú",
      "û", "ü", "ý", "þ">>

\* str.lower(), character by character
LowerChar(c) ==
    IF \E i \in 1..Len(UpperChars) : UpperChars[i] = c
    THEN LowerChars[CHOOSE i \in 1..Len(UpperChars) : UpperChars[i] = c]
    ELSE c
Lower(t) == [i \in 1..Len(t) |-> LowerChar(t[i])]

\* desc.split(): the maximal runs of characters that are not whitespace
RECURSIVE Split(_)
Split(s) ==
    IF s = <<>> THEN <<>>
    ELSE IF Head(s) \in Whitespace THEN Split(Tail(s))
    ELSE LET stops == {i \in 1..Len(s) : s[i] \in Whitespace}
                      \cup {Len(s) + 1}
             n == CHOOSE i \in stops : \A j \in stops : i <= j
         IN  <<SubSeq(s, 1, n - 1)>> \o Split(SubSeq(s, n, Len(s)))

\* w.startswith("#")
StartsWithHash(w) == Len(w) > 0 /\ w[1] = "#"

\* f"{n}" for a non-negative int: its decimal digits
DigitChars == <<"0", "1", "2", "3", "4", "5", "6", "7", "8", "9">>
RECURSIVE Digits(_)
Digits(n) ==
    IF n < 10 THEN <<DigitChars[n + 1]>>
    ELSE Digits(n \div 10) \o <<DigitChars[(n % 10) + 1]>>

\* "|".join(reasons), a string being the sequence of its pieces
RECURSIVE Join(_)
Join(reasons) ==
    IF reasons = <<>> THEN <<>>
    ELSE IF Len(reasons) = 1 THEN reasons[1]
    ELSE reasons[1] \o <<"|">> \o Join(Tail(reasons))

SeqsUpTo(S, n) == UNION {[1..k -> S] : k \in 0..n}

\* --------------------------------------------------------------- hashtags
\* lines 45-49: f"#{name}" for the annotations with a name; <<>> is a
\* falsy name, None or ""
RECURSIVE AnnotationTags(_)
AnnotationTags(textExtra) ==
    IF textExtra = <<>> THEN <<>>
    ELSE LET name == Head(textExtra).hashtagName
         IN  (IF name # <<>> THEN << <<"#">> \o name >> ELSE <<>>)
             \o AnnotationTags(Tail(textExtra))

\* mutant: the tags are compared as they are written
SeenKeyExact(t) == t

\* line 55: tl = t.lower()
SeenKey(t) == Lower(t)

\* lines 53-59: the first tag of each key, in order
RECURSIVE Uniq(_, _, _)
Uniq(tags, seen, uniq) ==
    IF tags = <<>> THEN uniq
    ELSE LET t == Head(tags)
             tl == SeenKey(t)
         IN  IF tl \notin seen
             THEN Uniq(Tail(tags), seen \cup {tl}, Append(uniq, t))
             ELSE Uniq(Tail(tags), seen, uniq)

\* _extract_hashtags(data)
ExtractHashtags(d) ==
    LET annotated == AnnotationTags(d.textExtra)
        tags == IF annotated = <<>>
                THEN SelectSeq(Split(d.desc), StartsWithHash)
                ELSE annotated
    IN  Uniq(tags, {}, <<>>)

\* ------------------------------------------------------------------ sound
\* sound ids; a falsy id (None, 0, "") is NoSound
SoundIds == 1..MaxSoundId
NoSound == 0

\* usage counts the Content Source reports; NoCount is a value that is
\* not an int (None), Raises is a lookup that raised
Counts == {999, 1000}
NoCount == -1
Raises == -2
LookupResults == Counts \cup {NoCount, Raises}

IsInt(c) == c \in Nat

\* data.get("music") or {}: the three id fields and the original flag,
\* "None" when the flag is absent
Originals == {"True", "False", "None"}
MusicObjs == [id : {NoSound} \cup SoundIds, musicId : {NoSound} \cup SoundIds,
              idStr : {NoSound} \cup SoundIds, original : Originals]
NoMusic == [id |-> NoSound, musicId |-> NoSound, idStr |-> NoSound,
            original |-> "None"]

\* music_obj.get("id") or music_obj.get("musicId") or music_obj.get("idStr")
MusicIdOf(m) ==
    IF m.id # NoSound THEN m.id
    ELSE IF m.musicId # NoSound THEN m.musicId
    ELSE m.idStr

\* mutant: the count must be above the threshold
PopularSoundHeuristicStrict(m, c) ==
    LET original == m.original
        popular == (original = "False")
                   \/ (IsInt(c) /\ c > POPULAR_SOUND_MIN_USES)
        reasons == (IF original = "False"
                    THEN << <<"non_original_sound">> >> ELSE <<>>)
                   \o (IF IsInt(c)
                       THEN << <<"videoCount=">> \o Digits(c) >> ELSE <<>>)
    IN  [popular |-> popular,
         reason |-> IF reasons # <<>> THEN Join(reasons)
                    ELSE <<"no_reason">>]

\* _popular_sound_heuristic(music_obj, music_uses_count)
PopularSoundHeuristic(m, c) ==
    LET original == m.original
        popular == (original = "False")
                   \/ (IsInt(c) /\ c >= POPULAR_SOUND_MIN_USES)
        reasons == (IF original = "False"
                    THEN << <<"non_original_sound">> >> ELSE <<>>)
                   \o (IF IsInt(c)
                       THEN << <<"videoCount=">> \o Digits(c) >> ELSE <<>>)
    IN  [popular |-> popular,
         reason |-> IF reasons # <<>> THEN Join(reasons)
                    ELSE <<"no_reason">>]

\* mutant: an unresolved entry does not count as cached
InCacheResolved(k) ==
    /\ k \in DOMAIN music_usage_cache
    /\ music_usage_cache[k] # NoCount

\* music_id in music_usage_cache
InCache(k) == k \in DOMAIN music_usage_cache

\* d[k] = v on a dict
Put(d, k, v) == [x \in DOMAIN d \cup {k} |-> IF x = k THEN v ELSE d[x]]

\* ------------------------------------------------------------------ items
\* t.as_dict, reduced to the fields the enrichment reads:
\* data.get("textExtra") or [], data.get("desc") or "",
\* data.get("music") or {}
Annotations == [hashtagName : {<<>>, <<"f">>, <<"F">>}]
DescChars == {" ", "\t", "#", "f", "F"}
Sound1 == [NoMusic EXCEPT !.id = 1, !.original = "True"]

\* the items of Spec: a caption with a repeated tag, with and without sound
Items == [textExtra : {<<>>},
          desc : {<<"h", "i", " ", "#", "F", " ", "#", "f">>},
          music : {NoMusic}]

\* the items of SpecEnrich: the sound objects with any id, a musicId that
\* is absent or 1 and an idStr that is absent or MaxSoundId
SoundItems ==
    [textExtra : {<<>>}, desc : {<<>>},
     music : {m \in MusicObjs : /\ m.musicId \in {NoSound, 1}
                                /\ m.idStr \in {NoSound, MaxSoundId}}]

\* the items of SpecTags: every caption without annotations, and every
\* annotation list with no caption and with the caption "#f"
TagItems ==
    [textExtra : {<<>>},
     desc : SeqsUpTo(DescChars, MaxDescLen),
     music : {NoMusic}]
    \cup [textExtra : SeqsUpTo(Annotations, MaxAnnotations),
          desc : {<<>>, <<"#", "f">>},
          music : {NoMusic}]

NoItem == [textExtra |-> <<>>, desc |-> <<>>, music |-> NoMusic]

\* ------------------------------------------------------------------- init
\* the locals of trending_videos before the first iteration
LoopInit ==
    /\ pc = "loop"
    /\ downloaded_count = 0
    /\ seen_ids = {}
    /\ consecutive_errors = 0
    /\ loops = 0
    /\ page_target = 0
    /\ got_any = FALSE
    /\ yielded = 0
    /\ video_id = NoId
    /\ out_path = None
    /\ stored = {}
    /\ csv_buf = <<>> /\ csv_disk = <<>>
    /\ jsonl_buf = <<>> /\ jsonl_disk = <<>>
    /\ files_open = TRUE
    /\ sessions = 1
    /\ last_expo = 0 /\ prev_expo = 0
    /\ last_item = "none"
    /\ last_page = "none"

\* no item has been fetched: music_usage_cache = {}
EnrichInit ==
    /\ data = NoItem
    /\ hashtags = <<>>
    /\ music_obj = NoMusic
    /\ music_id = NoSound
    /\ music_uses_count = NoCount
    /\ uses_popular_sound = FALSE
    /\ reason = <<>>
    /\ music_usage_cache = <<>>
    /\ lookups = [k \in SoundIds |-> [music |-> 0, sound |-> 0]]
    /\ first_uses = <<>>

Init ==
    /\ COUNT \in 1..MaxCOUNT
    /\ PAGE_SIZE \in 1..MaxPAGE_SIZE
    /\ MAX_LOOPS \in 1..MaxMAX_LOOPS
    /\ LoopInit
    /\ EnrichInit

\* ----------------------------------------------------------------- parts
\* await _new_session(api): create_sessions returns (ok) or raises
NewSession(ok) ==
    sessions' = IF ok THEN sessions + 1 ELSE sessions

\* the pause between pages, after a page that yielded something
InterPagePause ==
    /\ last_page' = "ok"
    /\ pc' = "loop"

\* except Exception (item level), lines 251-255: count the error; at the
\* threshold go on to re-create the session, else continue with the next
\* item
ItemExcept ==
    LET errs == consecutive_errors + 1 IN
    /\ consecutive_errors' = errs
    /\ last_item' = "item_error"
    /\ pc' = IF NeedsReset(errs) THEN "item_reset" ELSE "iter"

\* lines 199-209, up to the media fetch: the heuristic on the sound m with
\* key k, its usage count being c, and out_path = None
Enriched(m, k, c) ==
    /\ music_uses_count' = c
    /\ uses_popular_sound' = PopularSoundHeuristic(m, c).popular
    /\ reason' = PopularSoundHeuristic(m, c).reason
    /\ first_uses' = IF k \in SoundIds /\ k \notin DOMAIN first_uses
                     THEN Put(first_uses, k, c)
                     ELSE first_uses
    /\ out_path' = None
    /\ pc' = "bytes"

\* ---------------------------------------------------------------- actions
\* while downloaded_count < COUNT and loops < MAX_LOOPS: start a page
StartPage ==
    /\ pc = "loop"
    /\ LoopCondition
    /\ loops' = loops + 1
    /\ page_target' = PageTarget(downloaded_count)
    /\ got_any' = FALSE
    /\ yielded' = 0
    /\ pc' = "iter"
    /\ UNCHANGED <<config, enrich, downloaded_count, seen_ids,
                   consecutive_errors, video_id, out_path, stored, outputs,
                   sessions, backoff, last_item, last_page>>

\* the while condition is false: leave the `async with TikTokApi()` block
ExitLoop ==
    /\ pc = "loop"
    /\ ~LoopCondition
    /\ pc' = "teardown"
    /\ UNCHANGED <<config, enrich, downloaded_count, seen_ids,
                   consecutive_errors, loops, page_target, got_any, yielded,
                   video_id, out_path, stored, outputs, sessions, backoff,
                   last_item, last_page>>

\* await api.__aexit__ returns: close both outputs, print the summary; or
\* it raises, and the exception leaves trending_videos before line 282
Teardown(ok) ==
    /\ pc = "teardown"
    /\ IF ok
       THEN /\ csv_disk' = csv_disk \o csv_buf
            /\ csv_buf' = <<>>
            /\ jsonl_disk' = jsonl_disk \o jsonl_buf
            /\ jsonl_buf' = <<>>
            /\ files_open' = FALSE
            /\ pc' = "done"
       ELSE /\ pc' = "crashed"
            /\ UNCHANGED outputs
    /\ UNCHANGED <<config, enrich, downloaded_count, seen_ids,
                   consecutive_errors, loops, page_target, got_any, yielded,
                   video_id, out_path, stored, sessions, backoff, last_item,
                   last_page>>

\* the page yields an item although the target is reached: break
YieldBreak ==
    /\ pc = "iter"
    /\ yielded < page_target + MaxExtra
    /\ TargetReached
    /\ got_any' = TRUE
    /\ yielded' = yielded + 1
    /\ last_item' = "break"
    /\ InterPagePause
    /\ UNCHANGED <<config, enrich, downloaded_count, seen_ids,
                   consecutive_errors, loops, page_target, video_id,
                   out_path, stored, outputs, sessions, backoff>>

\* the page yields an item without id or with an id already seen: continue
YieldSkip(v) ==
    /\ pc = "iter"
    /\ yielded < page_target + MaxExtra
    /\ ~TargetReached
    /\ v = NoId \/ AlreadySeen(v)
    /\ got_any' = TRUE
    /\ yielded' = yielded + 1
    /\ video_id' = v
    /\ last_item' = IF v = NoId THEN "no_id" ELSE "duplicate"
    /\ pc' = "iter"
    /\ UNCHANGED <<config, enrich, downloaded_count, seen_ids,
                   consecutive_errors, loops, page_target, out_path, stored,
                   outputs, sessions, backoff, last_page>>

\* the page yields an item with a new id: seen_ids.add(video_id)
YieldNew(v) ==
    /\ pc = "iter"
    /\ yielded < page_target + MaxExtra
    /\ ~TargetReached
    /\ ~(v = NoId \/ AlreadySeen(v))
    /\ got_any' = TRUE
    /\ yielded' = yielded + 1
    /\ video_id' = v
    /\ seen_ids' = seen_ids \cup {v}
    /\ last_item' = "started"
    /\ pc' = "info"
    /\ UNCHANGED <<config, enrich, downloaded_count, consecutive_errors,
                   loops, page_target, out_path, stored, outputs, sessions,
                   backoff, last_page>>

\* the page is exhausted: an empty page raises RuntimeError, any other
\* page is followed by the pause between pages
PageExhausted ==
    /\ pc = "iter"
    /\ IF EmptyPage
       THEN /\ last_page' = "empty"
            /\ pc' = "page_err"
       ELSE InterPagePause
    /\ UNCHANGED <<config, enrich, downloaded_count, seen_ids,
                   consecutive_errors, loops, page_target, got_any, yielded,
                   video_id, out_path, stored, outputs, sessions, backoff,
                   last_item>>

\* api.trending.videos raises while the page is iterated
PageRaises ==
    /\ pc = "iter"
    /\ last_page' = "raised"
    /\ pc' = "page_err"
    /\ UNCHANGED <<config, enrich, downloaded_count, seen_ids,
                   consecutive_errors, loops, page_target, got_any, yielded,
                   video_id, out_path, stored, outputs, sessions, backoff,
                   last_item>>

\* await t.info() returns d; lines 173-209: the hashtags, the sound and
\* its key; the usage count comes from the cache, or is None with no
\* lookup when the sound has no id (lines 75-79), or is looked up
InfoOk(d) ==
    LET m == d.music
        k == MusicIdOf(m)
    IN  /\ pc = "info"
        /\ data' = d
        /\ hashtags' = ExtractHashtags(d)
        /\ music_obj' = m
        /\ music_id' = k
        /\ IF InCache(k)
           THEN /\ Enriched(m, k, music_usage_cache[k])
                /\ last_item' = "cache_hit"
                /\ UNCHANGED <<music_usage_cache, lookups>>
           ELSE IF k = NoSound
           THEN /\ music_usage_cache' = Put(music_usage_cache, k, NoCount)
                /\ Enriched(m, k, NoCount)
                /\ UNCHANGED <<lookups, last_item>>
           ELSE /\ pc' = "music"
                /\ UNCHANGED <<usage, music_usage_cache, lookups, last_item,
                               out_path>>
        /\ UNCHANGED <<config, downloaded_count, seen_ids,
                       consecutive_errors, loops, page_target, got_any,
                       yielded, video_id, stored, outputs, sessions,
                       backoff, last_page>>

\* lines 82-93, 198-209: await m.info() on the music entity; an int count
\* is returned and cached, anything else goes on to the sound entity
MusicLookup(r) ==
    /\ pc = "music"
    /\ lookups' = [lookups EXCEPT ![music_id].music = @ + 1]
    /\ IF IsInt(r)
       THEN /\ music_usage_cache' = Put(music_usage_cache, music_id, r)
            /\ Enriched(music_obj, music_id, r)
       ELSE /\ pc' = "sound"
            /\ UNCHANGED <<usage, music_usage_cache, out_path>>
    /\ UNCHANGED <<config, data, hashtags, music_obj, music_id,
                   downloaded_count, seen_ids, consecutive_errors, loops,
                   page_target, got_any, yielded, video_id, stored, outputs,
                   sessions, backoff, last_item, last_page>>

\* lines 95-109, 198-209: await s.info() on the sound entity; its int
\* count or None is returned and cached
SoundLookup(r) ==
    LET vc == IF IsInt(r) THEN r ELSE NoCount
    IN  /\ pc = "sound"
        /\ lookups' = [lookups EXCEPT ![music_id].sound = @ + 1]
        /\ music_usage_cache' = Put(music_usage_cache, music_id, vc)
        /\ Enriched(music_obj, music_id, vc)
        /\ UNCHANGED <<config, data, hashtags, music_obj, music_id,
                       downloaded_count, seen_ids, consecutive_errors, loops,
                       page_target, got_any, yielded, video_id, stored,
                       outputs, sessions, backoff, last_item, last_page>>

\* await t.info() raises: item-level handler
InfoFails ==
    /\ pc = "info"
    /\ ItemExcept
    /\ UNCHANGED <<config, enrich, downloaded_count, seen_ids, loops,
                   page_target, got_any, yielded, video_id, out_path, stored,
                   outputs, sessions, backoff, last_page>>

\* line 256-258: await _new_session(api) in the item-level handler; when
\* it returns the counter is zeroed and the next item follows, when it
\* raises the exception leaves the handler and is caught by the
\* page-level handler
ItemReset(ok) ==
    /\ pc = "item_reset"
    /\ NewSession(ok)
    /\ IF ok
       THEN /\ consecutive_errors' = 0
            /\ pc' = "iter"
            /\ UNCHANGED last_page
       ELSE /\ pc' = "page_err"
            /\ last_page' = "reset_failed"
            /\ UNCHANGED consecutive_errors
    /\ UNCHANGED <<config, enrich, downloaded_count, seen_ids, loops,
                   page_target, got_any, yielded, video_id, out_path, stored,
                   outputs, backoff, last_item>>

\* await t.bytes() returns and the bytes are written to out_path
DownloadOk ==
    /\ pc = "bytes"
    /\ out_path' = PathOf(video_id)
    /\ stored' = stored \cup {PathOf(video_id)}
    /\ pc' = "csv_write"
    /\ UNCHANGED <<config, enrich, downloaded_count, seen_ids,
                   consecutive_errors, loops, page_target, got_any, yielded,
                   video_id, outputs, sessions, backoff, last_item,
                   last_page>>

\* lines 210-217 when the try raises at `at`: in t.bytes(), with out_path
\* still None; in open(), with out_path set; in f.write(), with out_path
\* set and the file created
Failed(at) ==
    /\ out_path' = IF at = "bytes" THEN None ELSE PathOf(video_id)
    /\ stored' = IF at = "write" THEN stored \cup {PathOf(video_id)}
                 ELSE stored
    /\ last_item' = "download_failed"

\* mutant: a failed media fetch is counted as a capture
DownloadFailsCounted(at) ==
    /\ pc = "bytes"
    /\ Failed(at)
    /\ downloaded_count' = downloaded_count + 1
    /\ pc' = "iter"
    /\ UNCHANGED <<config, enrich, seen_ids, consecutive_errors, loops,
                   page_target, got_any, yielded, video_id, outputs,
                   sessions, backoff, last_page>>

\* mutant: the `continue` after a failed media fetch is missing
DownloadFailsFallsThrough(at) ==
    /\ pc = "bytes"
    /\ Failed(at)
    /\ pc' = "csv_write"
    /\ UNCHANGED <<config, enrich, downloaded_count, seen_ids,
                   consecutive_errors, loops, page_target, got_any, yielded,
                   video_id, outputs, sessions, backoff, last_page>>

\* the media fetch or the write of the file raises: print and continue
DownloadFails(at) ==
    /\ pc = "bytes"
    /\ Failed(at)
    /\ pc' = "iter"
    /\ UNCHANGED <<config, enrich, downloaded_count, seen_ids,
                   consecutive_errors, loops, page_target, got_any, yielded,
                   video_id, outputs, sessions, backoff, last_page>>

\* csv_writer.writerow([...]): the row goes to the buffer of csv_file, or,
\* when it is larger than the buffer, through to the file
CsvWrite(through) ==
    /\ pc = "csv_write"
    /\ IF through
       THEN /\ csv_disk' = csv_disk \o csv_buf
                           \o <<Row(video_id, out_path)>>
            /\ csv_buf' = <<>>
       ELSE /\ csv_buf' = Append(csv_buf, Row(video_id, out_path))
            /\ UNCHANGED csv_disk
    /\ pc' = "csv_flush"
    /\ UNCHANGED <<config, enrich, downloaded_count, seen_ids,
                   consecutive_errors, loops, page_target, got_any, yielded,
                   video_id, out_path, stored, jsonl_buf, jsonl_disk,
                   files_open, sessions, backoff, last_item, last_page>>

\* csv_writer.writerow raises on a row that cannot be encoded: nothing is
\* written, item-level handler
CsvWriteFails ==
    /\ pc = "csv_write"
    /\ ItemExcept
    /\ UNCHANGED <<config, enrich, downloaded_count, seen_ids, loops,
                   page_target, got_any, yielded, video_id, out_path, stored,
                   outputs, sessions, backoff, last_page>>

\* csv_file.flush()
CsvFlush ==
    /\ pc = "csv_flush"
    /\ csv_disk' = csv_disk \o csv_buf
    /\ csv_buf' = <<>>
    /\ pc' = "jsonl_write"
    /\ UNCHANGED <<config, enrich, downloaded_count, seen_ids,
                   consecutive_errors, loops, page_target, got_any, yielded,
                   video_id, out_path, stored, jsonl_buf, jsonl_disk,
                   files_open, sessions, backoff, last_item, last_page>>

\* jsonl_file.write(json.dumps(row) + "\n"): the line goes to the buffer
\* of jsonl_file, or, when it is larger than the buffer, through to the
\* file
JsonlWrite(through) ==
    /\ pc = "jsonl_write"
    /\ IF through
       THEN /\ jsonl_disk' = jsonl_disk \o jsonl_buf
                             \o <<Row(video_id, out_path)>>
            /\ jsonl_buf' = <<>>
       ELSE /\ jsonl_buf' = Append(jsonl_buf, Row(video_id, out_path))
            /\ UNCHANGED jsonl_disk
    /\ pc' = "jsonl_flush"
    /\ UNCHANGED <<config, enrich, downloaded_count, seen_ids,
                   consecutive_errors, loops, page_target, got_any, yielded,
                   video_id, out_path, stored, csv_buf, csv_disk, files_open,
                   sessions, backoff, last_item, last_page>>

\* json.dumps(row) raises on a row that cannot be serialized: the CSV row
\* stays, nothing reaches the JSONL file, item-level handler
JsonlWriteFails ==
    /\ pc = "jsonl_write"
    /\ ItemExcept
    /\ UNCHANGED <<config, enrich, downloaded_count, seen_ids, loops,
                   page_target, got_any, yielded, video_id, out_path, stored,
                   outputs, sessions, backoff, last_page>>

\* jsonl_file.flush()
JsonlFlush ==
    /\ pc = "jsonl_flush"
    /\ jsonl_disk' = jsonl_disk \o jsonl_buf
    /\ jsonl_buf' = <<>>
    /\ pc' = "count"
    /\ UNCHANGED <<config, enrich, downloaded_count, seen_ids,
                   consecutive_errors, loops, page_target, got_any, yielded,
                   video_id, out_path, stored, csv_buf, csv_disk, files_open,
                   sessions, backoff, last_item, last_page>>

\* downloaded_count += 1; consecutive_errors = 0; the pause between items
CountSaved ==
    /\ pc = "count"
    /\ downloaded_count' = downloaded_count + 1
    /\ consecutive_errors' = 0
    /\ last_expo' = 0
    /\ prev_expo' = 0
    /\ last_item' = "saved"
    /\ pc' = "iter"
    /\ UNCHANGED <<config, enrich, seen_ids, loops, page_target, got_any,
                   yielded, video_id, out_path, stored, outputs, sessions,
                   last_page>>

\* except Exception (page level), lines 267-273: count the error, compute
\* the backoff and start to sleep it
PageExcept ==
    LET errs == consecutive_errors + 1 IN
    /\ pc = "page_err"
    /\ consecutive_errors' = errs
    /\ last_expo' = Expo(errs)
    /\ prev_expo' = last_expo
    /\ pc' = "page_sleep"
    /\ UNCHANGED <<config, enrich, downloaded_count, seen_ids, loops,
                   page_target, got_any, yielded, video_id, out_path, stored,
                   outputs, sessions, last_item, last_page>>

\* await asyncio.sleep(sleep_for) returns; line 275: at the threshold go
\* on to re-create the session, else back to the while condition
PageSlept ==
    /\ pc = "page_sleep"
    /\ pc' = IF NeedsReset(consecutive_errors) THEN "page_reset" ELSE "loop"
    /\ UNCHANGED <<config, enrich, downloaded_count, seen_ids,
                   consecutive_errors, loops, page_target, got_any, yielded,
                   video_id, out_path, stored, outputs, sessions, backoff,
                   last_item, last_page>>

\* lines 277-278: await _new_session(api) in the page-level handler; when
\* it raises nothing catches the exception: it leaves the loop and
\* trending_videos
PageReset(ok) ==
    /\ pc = "page_reset"
    /\ NewSession(ok)
    /\ IF ok
       THEN /\ consecutive_errors' = 0
            /\ pc' = "loop"
       ELSE /\ pc' = "crashed"
            /\ UNCHANGED consecutive_errors
    /\ UNCHANGED <<config, enrich, downloaded_count, seen_ids, loops,
                   page_target, got_any, yielded, video_id, out_path, stored,
                   outputs, backoff, last_item, last_page>>

\* every step but the answer of t.info()
LoopSteps ==
    \/ StartPage
    \/ ExitLoop
    \/ \E ok \in BOOLEAN : Teardown(ok)
    \/ YieldBreak
    \/ \E v \in VideoIds \cup {NoId} : YieldSkip(v)
    \/ \E v \in VideoIds : YieldNew(v)
    \/ PageExhausted
    \/ PageRaises
    \/ InfoFails
    \/ \E ok \in BOOLEAN : ItemReset(ok)
    \/ DownloadOk
    \/ \E at \in {"bytes", "open", "write"} : DownloadFails(at)
    \/ \E through \in BOOLEAN : CsvWrite(through)
    \/ CsvWriteFails
    \/ CsvFlush
    \/ \E through \in BOOLEAN : JsonlWrite(through)
    \/ JsonlWriteFails
    \/ JsonlFlush
    \/ CountSaved
    \/ PageExcept
    \/ PageSlept
    \/ \E ok \in BOOLEAN : PageReset(ok)

Next ==
    \/ LoopSteps
    \/ \E d \in Items : InfoOk(d)

Spec == Init /\ [][Next]_vars

\* two items to capture from one page
InitEnrich ==
    /\ COUNT = 2
    /\ PAGE_SIZE = 2
    /\ MAX_LOOPS = 1
    /\ LoopInit
    /\ EnrichInit

\* the steps of a run in which every call but the sound lookups
\* succeeds, over items with sound
NextEnrich ==
    \/ StartPage
    \/ ExitLoop
    \/ \E ok \in BOOLEAN : Teardown(ok)
    \/ YieldBreak
    \/ \E v \in VideoIds \cup {NoId} : YieldSkip(v)
    \/ \E v \in VideoIds : YieldNew(v)
    \/ PageExhausted
    \/ \E d \in SoundItems : InfoOk(d)
    \/ \E r \in LookupResults : MusicLookup(r)
    \/ \E r \in LookupResults : SoundLookup(r)
    \/ DownloadOk
    \/ \E through \in BOOLEAN : CsvWrite(through)
    \/ CsvFlush
    \/ \E through \in BOOLEAN : JsonlWrite(through)
    \/ JsonlFlush
    \/ CountSaved
    \/ PageExcept
    \/ PageSlept

SpecEnrich == InitEnrich /\ [][NextEnrich]_vars

\* the start of a run up to the enrichment of its first item, with any
\* annotations and caption
InfoOkTags ==
    /\ pc = "info"
    /\ \E d \in TagItems : InfoOk(d)

NextTags ==
    \/ StartPage
    \/ \E v \in VideoIds : YieldNew(v)
    \/ InfoOkTags

\* one item to capture
InitTags ==
    /\ COUNT = 1
    /\ PAGE_SIZE = 1
    /\ MAX_LOOPS = 1
    /\ LoopInit
    /\ EnrichInit

SpecTags == InitTags /\ [][NextTags]_vars

\* ----------------------------------------------------------------- claims
Lines == jsonl_disk \o jsonl_buf
Rows  == csv_disk \o csv_buf

ItemPcs == {"info", "music", "sound", "bytes", "csv_write", "csv_flush",
            "jsonl_write", "jsonl_flush", "count"}

\* C1: no two records appended to the JSONL output carry the same video id,
\* whatever the pages yield.
C1_NoDuplicateIds ==
    \A i, j \in 1..Len(Lines) :
        i # j => Lines[i].video_id # Lines[j].video_id

\* C1 witness: a later page yielded again an id that already has a record,
\* and the item was skipped.
C1_Witness ==
    /\ pc = "iter"
    /\ last_item = "duplicate"
    /\ loops >= 2
    /\ video_id \in Ids(jsonl_disk)

\* C2: downloaded_count never exceeds COUNT, and once it has reached COUNT
\* no item is in the pipeline (no detail fetch, media fetch or append).
C2_AtMostTarget ==
    /\ downloaded_count <= COUNT
    /\ downloaded_count >= COUNT => pc \notin ItemPcs

\* C2 witness: the target was reached in the middle of a page that went on
\* to yield more items than were requested, and the loop broke out.
C2_Witness ==
    /\ last_item = "break"
    /\ downloaded_count = COUNT
    /\ yielded > page_target
    /\ pc = "loop"

\* C3: downloaded_count never decreases, every change is an increase by
\* exactly 1 that follows one flushed record in each output, and between
\* pages and after the loop it equals the number of JSONL lines appended.
C3_CountTracksRecords ==
    /\ [][/\ downloaded_count' >= downloaded_count
          /\ downloaded_count' # downloaded_count =>
                /\ downloaded_count' = downloaded_count + 1
                /\ Len(jsonl_disk) = downloaded_count + 1
                /\ jsonl_disk' = jsonl_disk]_vars
    /\ [](pc \in {"loop", "teardown", "done", "crashed"} =>
              downloaded_count = Len(Lines))

\* C3 witness: a run in which one item was captured and another failed
\* ended at the ceiling with one capture and one JSONL line.
C3_Witness ==
    /\ pc = "done"
    /\ downloaded_count = 1
    /\ Len(jsonl_disk) = 1
    /\ Cardinality(seen_ids) = 2

\* C4: no error escapes the ingestion loop: no step taken inside the loop
\* ends trending_videos by an exception.
C4_NoErrorEscapes ==
    [][pc' = "crashed" => pc \in {"teardown", "crashed"}]_vars

\* C5: the loop is left only when downloaded_count >= COUNT or loops has
\* reached MAX_LOOPS; loops never exceeds MAX_LOOPS, and a loop left before
\* the ceiling has captured exactly COUNT items.
C5_StopsOnlyAtTargetOrCeiling ==
    /\ loops <= MAX_LOOPS
    /\ pc \in {"teardown", "done", "crashed"} =>
          /\ downloaded_count >= COUNT \/ loops >= MAX_LOOPS
          /\ loops < MAX_LOOPS => downloaded_count = COUNT

\* C6: over consecutive page-level failures with no successful capture in
\* between, the deterministic part of the backoff never decreases.
C6_BackoffNonDecreasing ==
    prev_expo # 0 => prev_expo <= last_expo

\* C7: right after the k-th successful append (both flushes done) each
\* output holds exactly k flushed records, and nothing is left in a buffer
\* when the next item starts: a buffered record exists only between its
\* write and its flush.
C7_FlushedPerRecord ==
    /\ pc = "count" =>
          /\ Len(csv_disk) = downloaded_count + 1
          /\ Len(jsonl_disk) = downloaded_count + 1
    /\ csv_buf # <<>> => pc = "csv_flush" /\ Len(csv_buf) = 1
    /\ jsonl_buf # <<>> => pc = "jsonl_flush" /\ Len(jsonl_buf) = 1

\* C8: a page that yields nothing is handled by the page-level handler and
\* never by the pause between pages; the handler adds 1 to
\* consecutive_errors and sleeps the backoff computed from it before the
\* next page request.
C8_EmptyPageIsFailure ==
    /\ [][/\ (pc = "iter" /\ ~got_any /\ ~got_any') => pc' = "page_err"
          /\ pc = "page_err" =>
                /\ consecutive_errors' = consecutive_errors + 1
                /\ last_expo' = Expo(consecutive_errors + 1)
                /\ last_expo' >= 2 * BACKOFF_BASE_SEC
                /\ pc' = "page_sleep"
          /\ pc' = "page_sleep" => pc \in {"page_err", "page_sleep"}
          /\ pc = "page_sleep" => pc' \in {"loop", "page_reset", "page_sleep"}
          /\ (pc' = "loop" /\ last_page' = "empty") =>
                pc \in {"loop", "page_sleep", "page_reset"}]_vars
    /\ []((pc = "loop" /\ last_page = "empty") =>
              last_expo >= 2 * BACKOFF_BASE_SEC)

\* C8 witness: an empty first page has been backed off for
\* BACKOFF_BASE_SEC * 2 seconds and the loop is about to request the next
\* page.
C8_Witness ==
    /\ pc = "loop"
    /\ last_page = "empty"
    /\ consecutive_errors = 1
    /\ last_expo = 4
    /\ \A j \in Jitters : SleepFor(consecutive_errors, j) \in 40..48

\* C9: at the moment of a page request the requested size is
\* min(PAGE_SIZE, COUNT - downloaded_count): at least 1, at most PAGE_SIZE,
\* at most the number of items still missing, and equal to one of the two.
C9_PageSizeRequested ==
    (pc = "iter" /\ yielded = 0 /\ ~got_any) =>
        /\ page_target >= 1
        /\ page_target <= PAGE_SIZE
        /\ page_target <= COUNT - downloaded_count
        /\ page_target = PAGE_SIZE \/ page_target = COUNT - downloaded_count

\* C9 witness: a page is requested for a remainder smaller than PAGE_SIZE.
C9_Witness ==
    /\ pc = "iter"
    /\ yielded = 0
    /\ downloaded_count > 0
    /\ page_target = COUNT - downloaded_count
    /\ page_target < PAGE_SIZE

\* C10: every record of either output carries the path of a file that was
\* written to local storage, no record belongs to an item whose media fetch
\* failed, and a failed media fetch changes neither output nor the count.
C10_RecordOnlyAfterMedia ==
    /\ [](\A s \in {Rows, Lines} : \A i \in 1..Len(s) :
              /\ s[i].download_path # None
              /\ s[i].download_path = PathOf(s[i].video_id)
              /\ s[i].download_path \in stored
              /\ last_item = "download_failed" =>
                     s[i].video_id # video_id)
    /\ [][(pc = "bytes" /\ pc' # "csv_write") =>
              UNCHANGED <<outputs, downloaded_count>>]_vars

\* C10 witness: after a captured item, the media fetch of another item has
\* just failed.
C10_Witness ==
    /\ pc = "iter"
    /\ last_item = "download_failed"
    /\ out_path = None
    /\ video_id \in seen_ids
    /\ Len(jsonl_disk) >= 1
    /\ Len(csv_disk) >= 1

\* C11: at every point of the run at most one session to the Content
\* Source is open, however many resets have happened.
C11_AtMostOneSession == sessions <= 1

\* C12: within one run the usage-count lookup (music entity, then sound
\* entity) is issued at most once per sound id; once a first item with a
\* sound id has been enriched, resolved or not, every later item with that
\* id takes its count from music_usage_cache, issues no lookup, and gets
\* the count the first item got.
C12_LookupOncePerSound ==
    /\ [](\A k \in SoundIds : lookups[k].music <= 1 /\ lookups[k].sound <= 1)
    /\ []((pc \notin {"music", "sound"} /\ music_id \in DOMAIN first_uses)
            => music_uses_count = first_uses[music_id])
    /\ [][(pc = "info" /\ music_id' \in DOMAIN first_uses)
          => (/\ pc' = "bytes"
              /\ lookups' = lookups
              /\ music_usage_cache' = music_usage_cache
              /\ music_uses_count' = first_uses[music_id'])]_vars

\* C12 witness: after a captured item whose sound could not be resolved by
\* either lookup, a second item with the same sound id has been enriched
\* from the cache.
C12_Witness ==
    /\ pc = "bytes"
    /\ last_item = "cache_hit"
    /\ downloaded_count = 1
    /\ music_id = 1
    /\ lookups[1] = [music |-> 1, sound |-> 1]
    /\ first_uses[1] = NoCount
    /\ music_usage_cache[1] = NoCount
    /\ music_uses_count = NoCount

\* C13: _popular_sound_heuristic returns popular exactly when the sound
\* is flagged original = False or the usage count is an int at or above
\* POPULAR_SOUND_MIN_USES; the reason is "non_original_sound" and
\* "videoCount=<n>", those that apply, in this order, joined by "|", or
\* "no_reason"; with the three examples of the specification.
C13_PopularSoundHeuristic ==
    /\ (reason # <<>> /\ pc \notin {"music", "sound"}) =>
          LET nonOriginal == music_obj.original = "False"
              counted == music_uses_count \in Nat
              n == music_uses_count
          IN  /\ uses_popular_sound
                    = (nonOriginal
                       \/ (counted /\ n >= POPULAR_SOUND_MIN_USES))
              /\ reason =
                    CASE nonOriginal /\ counted ->
                           <<"non_original_sound", "|", "videoCount=">>
                           \o Digits(n)
                      [] nonOriginal /\ ~counted -> <<"non_original_sound">>
                      [] ~nonOriginal /\ counted ->
                           <<"videoCount=">> \o Digits(n)
                      [] OTHER -> <<"no_reason">>
    /\ PopularSoundHeuristic([NoMusic EXCEPT !.original = "False"], NoCount)
          = [popular |-> TRUE, reason |-> <<"non_original_sound">>]
    /\ LET r == PopularSoundHeuristic([NoMusic EXCEPT !.original = "True"],
                                      1500)
       IN  /\ r.popular
           /\ \E i \in 1..Len(r.reason) :
                 /\ i + 4 <= Len(r.reason)
                 /\ SubSeq(r.reason, i, i + 4)
                      = <<"videoCount=", "1", "5", "0", "0">>
    /\ PopularSoundHeuristic([NoMusic EXCEPT !.original = "True"], 50)
          = [popular |-> FALSE, reason |-> <<"videoCount=", "5", "0">>]

\* C13 witness: an item with an original sound used exactly
\* POPULAR_SOUND_MIN_USES times has been enriched: the sound is popular.
C13_Witness ==
    /\ pc = "bytes"
    /\ music_obj.original = "True"
    /\ music_uses_count = POPULAR_SOUND_MIN_USES
    /\ uses_popular_sound = TRUE
    /\ reason = <<"videoCount=", "1", "0", "0", "0">>

\* C14: _extract_hashtags returns tags no two of which are equal ignoring
\* case, each in the casing of its first occurrence, in the order of the
\* first occurrences; the tags are those of the textExtra annotations
\* when one of them carries a name, and otherwise the "#"-prefixed
\* whitespace-separated tokens of the caption; the caption
\* "check this #Fun #fun #NEW" with no annotations gives #Fun, #NEW.
C14_ExtractHashtags ==
    /\ pc = "bytes" =>
          LET annotated == \E i \in 1..Len(data.textExtra) :
                              data.textExtra[i].hashtagName # <<>>
              src == IF annotated THEN AnnotationTags(data.textExtra)
                     ELSE SelectSeq(Split(data.desc), StartsWithHash)
              First(t) == CHOOSE i \in 1..Len(src) :
                             /\ Lower(src[i]) = Lower(t)
                             /\ \A j \in 1..(i - 1) : Lower(src[j]) # Lower(t)
              n == Len(hashtags)
          IN  /\ \A i, j \in 1..n :
                    i # j => Lower(hashtags[i]) # Lower(hashtags[j])
              /\ \A j \in 1..n : \E i \in 1..Len(src) :
                    Lower(src[i]) = Lower(hashtags[j])
              /\ \A j \in 1..n : hashtags[j] = src[First(hashtags[j])]
              /\ \A i \in 1..Len(src) : \E j \in 1..n :
                    Lower(hashtags[j]) = Lower(src[i])
              /\ \A i, j \in 1..n :
                    i < j => First(hashtags[i]) < First(hashtags[j])
              /\ \A j \in 1..n : \A i \in 1..Len(hashtags[j]) :
                    hashtags[j][i] \notin Whitespace
    /\ ExtractHashtags([textExtra |-> <<>>,
                        desc |-> <<"c", "h", "e", "c", "k", " ", "t", "h", "i", "s", " ", "#", "F", "u", "n", " ", "#", "f", "u", "n", " ", "#", "N", "E", "W">>])
          = << <<"#", "F", "u", "n">>, <<"#", "N", "E", "W">> >>
    /\ ExtractHashtags([textExtra |-> <<>>,
                        desc |-> <<"#", "a", "\t", "#", "b">>])
          = << <<"#", "a">>, <<"#", "b">> >>
    /\ ExtractHashtags([textExtra |-> <<>>,
                        desc |-> <<"#", "a", "\n", "#", "A">>])
          = << <<"#", "a">> >>
    /\ \A w \in Whitespace :
          ExtractHashtags([textExtra |-> <<>>,
                           desc |-> <<"#", "a", w, "#", "A", w, "b">>])
             = << <<"#", "a">> >>
    /\ ExtractHashtags([textExtra |-> <<>>,
                        desc |-> <<"#", "É", " ", "#", "é">>])
          = << <<"#", "É">> >>

\* C14 witness: the caption "#F<TAB>#f" with no named annotation gives the
\* one tag #F.
C14_Witness ==
    /\ pc = "bytes"
    /\ \A i \in 1..Len(data.textExtra) : data.textExtra[i].hashtagName = <<>>
    /\ data.desc = <<"#", "F", "\t", "#", "f">>
    /\ hashtags = << <<"#", "F">> >>

\* C15: outside the item pipeline seen_ids is exactly the set of ids that
\* have a record in the JSONL output, so that an id whose item failed is
\* not in seen_ids and is processed again when it is yielded again.
C15_SeenIffCaptured ==
    pc \notin ItemPcs => seen_ids = Ids(Lines)

\* C16: a failed media fetch is counted like any other item-level failure:
\* it adds 1 to consecutive_errors.
C16_MediaFailureCounted ==
    [][(pc = "bytes" /\ pc' # "csv_write") =>
          consecutive_errors' = consecutive_errors + 1]_vars

\* C17: a session is re-created, or its re-creation attempted, only when
\* consecutive_errors has reached RESET_SESSION_AFTER_ERRORS; a completed
\* re-creation and a successful capture both set the counter to 0, and the
\* counter never moves otherwise: it goes up by 1 at a failure and to 0 at
\* a capture or a completed re-creation.
C17_ResetOnlyAtThreshold ==
    [][/\ sessions' # sessions =>
             /\ sessions' = sessions + 1
             /\ consecutive_errors >= RESET_SESSION_AFTER_ERRORS
             /\ consecutive_errors' = 0
       /\ pc' \in {"item_reset", "page_reset"} =>
             consecutive_errors' >= RESET_SESSION_AFTER_ERRORS
       /\ pc = "count" => consecutive_errors' = 0
       /\ consecutive_errors' \in
             {consecutive_errors, consecutive_errors + 1, 0}
       /\ consecutive_errors' = consecutive_errors + 1 =>
             pc \in {"info", "csv_write", "jsonl_write", "page_err"}
       /\ (consecutive_errors' = 0 /\ consecutive_errors # 0) =>
             pc = "count" \/ sessions' = sessions + 1]_vars

\* C17 witness: two failed items and an empty page brought the shared
\* counter to the threshold, and the session was re-created for the first
\* time.
C17_Witness ==
    /\ sessions = 2
    /\ consecutive_errors = 0
    /\ downloaded_count = 0
    /\ Cardinality(seen_ids) = 2
    /\ last_page = "empty"
    /\ pc = "loop"

\* C18: a failed item never ends the page: after it the loop asks the same
\* page for its next item, also when the failure forces a session reset,
\* and no backoff is slept.
C18_ItemFailureKeepsPage ==
    [][((pc = "info" /\ pc' \notin {"bytes", "music"})
        \/ (pc = "csv_write" /\ pc' # "csv_flush")
        \/ (pc = "jsonl_write" /\ pc' # "jsonl_flush")
        \/ pc = "item_reset") =>
          /\ pc' \in {"iter", "item_reset"}
          /\ UNCHANGED <<loops, yielded, backoff>>]_vars

\* C19: when a page is requested and when an item starts,
\* 0 <= consecutive_errors < RESET_SESSION_AFTER_ERRORS; hence no backoff
\* uses an exponent above RESET_SESSION_AFTER_ERRORS and no backoff sleep
\* exceeds min(BACKOFF_MAX_SEC, BACKOFF_BASE_SEC * 2^RESET_SESSION_AFTER_ERRORS)
\* plus the jitter.
C19_CounterBelowThreshold ==
    /\ pc \in {"iter", "info"} =>
          /\ consecutive_errors >= 0
          /\ consecutive_errors < RESET_SESSION_AFTER_ERRORS
    /\ last_expo <= Min(BACKOFF_MAX_SEC,
                        BACKOFF_BASE_SEC * Pow2(RESET_SESSION_AFTER_ERRORS))
    /\ pc = "page_sleep" =>
          \A j \in Jitters :
              SleepFor(consecutive_errors, j) <=
                 10 * Min(BACKOFF_MAX_SEC,
                          BACKOFF_BASE_SEC * Pow2(RESET_SESSION_AFTER_ERRORS))
                 + JitterTenths

\* C20: at every point of a run, also after a step failed between the two
\* writes, with T rows written to the CSV and S lines written to the JSONL:
\* downloaded_count <= S <= T, T - S <= 1, S - downloaded_count <= 1, and
\* the i-th row and the i-th line carry the same id.
C20_OutputsInStep ==
    LET T == Len(Rows)
        S == Len(Lines)
    IN  /\ downloaded_count <= S
        /\ S <= T
        /\ T - S <= 1
        /\ S - downloaded_count <= 1
        /\ \A i \in 1..S : Rows[i].video_id = Lines[i].video_id

====
